---------------------------- MODULE Spec2Model ----------------------------
(***************************************************************************)
(* genfut: generation of a Rust wrapper crate from the headers that the    *)
(* Futhark compiler emits for each active backend.                         *)
(*                                                                         *)
(* Part 1 models the two header scans of genfut() (src/lib.rs 193-206):    *)
(* header text is a sequence of characters and each regular expression is  *)
(* translated piece by piece into the set of positions it can reach.       *)
(* Part 2 models one invocation of genfut() (src/lib.rs 106-301, with      *)
(* gen_c and generate_bindings of src/genc.rs) as a sequential process     *)
(* whose file-system and subprocess calls may fail.                        *)
(***************************************************************************)
EXTENDS Integers, Sequences, FiniteSets

VARIABLES
    \* ---- one invocation of genfut() ----
    pc,               \* position in genfut()
    active_backends,  \* the cfg(feature) selected backends, in source order
    macos,            \* cfg!(target_os = "macos")
    no_futhark,       \* cfg(feature = "no_futhark")
    installed,        \* whether Command::new("futhark") can be spawned
    sync_status,      \* exit status of `futhark pkg sync` (never inspected)
    idx,              \* backend under work in gen_c / in the backend loop
    header,           \* content of lib_<backend>/a.h: 0 = no file, k = HeaderTexts[k]
    status,           \* exit status of this run's compiler, per backend (never inspected)
    files,            \* output files of this invocation: absent / created / written
    bindings,         \* backend whose header src/bindings.rs was generated from ("" = not written)
    bindgen_calls,    \* backends generate_bindings was called for, in call order
    check_equivalent, \* Vec<(backend, array_types, entry_points)>
    array_types,      \* canonical array types after the reduce
    entry_points,     \* canonical entry points after the reduce
    gen_impl_arg,     \* argument gen_impl_futhark_types was called with
    gen_entry_arg,    \* argument gen_entry_points was called with
    outcome,          \* running / ok / exit1 / panic
    message,          \* what the terminating panic of the reduce reported
    \* ---- the header scans on their own ----
    chunks,           \* declarations the scanned header was put together from
    arr_out,          \* result of the array-type scan
    ent_out           \* result of the entry-point scan

vars == << pc, active_backends, macos, no_futhark, installed, sync_status, idx,
           header, status, files, bindings, bindgen_calls, check_equivalent,
           array_types, entry_points, gen_impl_arg, gen_entry_arg, outcome,
           message, chunks, arr_out, ent_out >>

runVars == << active_backends, macos, no_futhark, installed, sync_status, idx,
              header, status, files, bindings, bindgen_calls, check_equivalent,
              array_types, entry_points, gen_impl_arg, gen_entry_arg, outcome,
              message >>

-----------------------------------------------------------------------------
(***************************************************************************)
(* Part 1: header text and the two regular expressions.                    *)
(***************************************************************************)

\* Longest header, in declarations, that the scan specification draws.
MaxChunks == 3

Max(S) == CHOOSE x \in S : \A y \in S : y <= x
Min(S) == CHOOSE x \in S : \A y \in S : x <= y

\* Character classes of the regex crate, over the characters headers use.
Lower == {"a", "b", "c", "d", "e", "f", "g", "h", "i", "j", "k", "l", "m",
          "n", "o", "p", "q", "r", "s", "t", "u", "v", "w", "x", "y", "z"}
Digit == {"0", "1", "2", "3", "4", "5", "6", "7", "8", "9"}
\* [a-z0-9_]
WordCh == Lower \cup Digit \cup {"_"}
\* [a-z0-9]
AlnumCh == Lower \cup Digit
\* \s
Space == {" ", "\n"}
Alphabet == WordCh \cup Space \cup {"(", ")", "*", ",", ";", ":"}
\* `.` matches any character but a line break
NotNewline == Alphabet \ {"\n"}

\* Words of the header text, spelled out character by character.
W_struct == <<"s", "t", "r", "u", "c", "t">>
W_futhark_ == <<"f", "u", "t", "h", "a", "r", "k", "_">>
W_context == <<"c", "o", "n", "t", "e", "x", "t">>
W_ctx == <<"c", "t", "x">>
W_int == <<"i", "n", "t">>
W_entry_ == <<"e", "n", "t", "r", "y", "_">>
W_const == <<"c", "o", "n", "s", "t">>
W_int32_t == <<"i", "n", "t", "3", "2", "_", "t">>
W_i32 == <<"i", "3", "2">>
W_f64 == <<"f", "6", "4">>
W_free_ == <<"f", "r", "e", "e", "_">>
W_out0 == <<"o", "u", "t", "0">>
W_in0 == <<"i", "n", "0">>
W_arr == <<"a", "r", "r">>
W_nop == <<"n", "o", "p">>
W_inc == <<"i", "n", "c">>
W_sum == <<"s", "u", "m">>
SP == <<" ">>
NL == <<"\n">>

\* "struct futhark_context *ctx": the context parameter of every prototype
CtxParam == W_struct \o SP \o W_futhark_ \o W_context \o SP \o <<"*">> \o W_ctx

\* Names of array types as the compiler spells them
Name_i32_1d == W_futhark_ \o W_i32 \o <<"_", "1", "d">>
Name_f64_2d == W_futhark_ \o W_f64 \o <<"_", "2", "d">>

\* Statements of a generated header.  Each is one declaration without its
\* line break; "nl" is the line break.
EntryHead(name) == W_int \o SP \o W_futhark_ \o W_entry_ \o name \o <<"(">> \o CtxParam
Stmt_decl_i32_1d == W_struct \o SP \o Name_i32_1d \o <<";">>
Stmt_decl_f64_2d == W_struct \o SP \o Name_f64_2d \o SP \o <<";">>
Stmt_decl_context == W_struct \o SP \o W_futhark_ \o W_context \o <<";">>
Stmt_free_i32_1d ==
    W_int \o SP \o W_futhark_ \o W_free_ \o W_i32 \o <<"_", "1", "d", "(">> \o CtxParam
    \o <<",", " ">> \o W_struct \o SP \o Name_i32_1d \o SP \o <<"*">> \o W_arr \o <<")", ";">>
Stmt_entry_nop == EntryHead(W_nop) \o <<")", ";">>
Stmt_entry_inc ==
    EntryHead(W_inc) \o <<",", " ">> \o W_int32_t \o SP \o <<"*">> \o W_out0
    \o <<",", " ">> \o W_const \o SP \o W_int32_t \o SP \o W_in0 \o <<")", ";">>
Stmt_entry_sum ==
    EntryHead(W_sum) \o <<",", " ">> \o W_int32_t \o SP \o <<"*">> \o W_out0
    \o <<",", " ">> \o W_const \o SP \o W_struct \o SP \o Name_i32_1d \o SP
    \o <<"*">> \o W_in0 \o <<")", ";">>

ArrayDeclKinds == {"decl_i32_1d", "decl_f64_2d"}
EntryKinds == {"entry_nop", "entry_inc", "entry_sum"}
ChunkKinds == ArrayDeclKinds \cup EntryKinds \cup {"decl_context", "free_i32_1d", "nl"}

ChunkText(c) ==
    CASE c = "decl_i32_1d" -> Stmt_decl_i32_1d
      [] c = "decl_f64_2d" -> Stmt_decl_f64_2d
      [] c = "decl_context" -> Stmt_decl_context
      [] c = "free_i32_1d" -> Stmt_free_i32_1d
      [] c = "entry_nop" -> Stmt_entry_nop
      [] c = "entry_inc" -> Stmt_entry_inc
      [] c = "entry_sum" -> Stmt_entry_sum
      [] c = "nl" -> NL

\* The array type a declaration declares
DeclName(c) ==
    CASE c = "decl_i32_1d" -> Name_i32_1d
      [] c = "decl_f64_2d" -> Name_f64_2d

RECURSIVE HeaderOf(_)
HeaderOf(cs) ==
    IF cs = << >> THEN << >> ELSE ChunkText(Head(cs)) \o HeaderOf(Tail(cs))

\* ---- regular expressions as position sets ----
\* A position p is the index of the next character to read, 1..Len(h)+1.
\* Each combinator maps the set of positions a prefix of the expression can
\* reach to the set the prefix extended by one piece can reach.
Positions(h) == 1..(Len(h) + 1)

\* one character of class C
One(h, S, C) == { p + 1 : p \in { q \in S : q <= Len(h) /\ h[q] \in C } }

\* C*
Star(h, S, C) ==
    IF S = {} THEN {}
    ELSE { q \in Positions(h) : \E p \in S : p <= q /\ \A x \in p..(q - 1) : h[x] \in C }

\* C+
Plus(h, S, C) == Star(h, One(h, S, C), C)

\* the literal w
Lit(h, S, w) ==
    { p + Len(w) : p \in { q \in S : /\ q + Len(w) - 1 <= Len(h)
                                     /\ \A k \in 1..Len(w) : h[q + k - 1] = w[k] } }

\* (:?word\s*)?  -- an optional ":" , the word, white space; the whole optional
OptWord(h, S, w) == S \cup Star(h, Lit(h, S \cup Lit(h, S, <<":">>), w), Space)

\* re_array_types = struct (futhark_.+_\d+d)\s*;
\* Positions right after group 1, for a match starting at s.
ArrGroupStart(s) == s + Len(W_struct \o SP)

ArrGroupEnds(h, s) ==
    LET a == Lit(h, {s}, W_struct \o SP)
        b == Lit(h, a, W_futhark_)
        c == Plus(h, b, NotNewline)
        d == Lit(h, c, <<"_">>)
        e == Plus(h, d, Digit)
    IN  Lit(h, e, <<"d">>)

\* \s*; after group 1
ArrTail(h, g) == Lit(h, Star(h, {g}, Space), <<";">>)

\* Ends of group 1 in matches of re_array_types that start at s
ArrMatches(h, s) == { g \in ArrGroupEnds(h, s) : ArrTail(h, g) # {} }

\* captures_iter(&headers).map(|c| c[1].to_owned()): matches are found left to
\* right, none overlapping; `.+` is greedy and the only piece whose extent
\* moves the end of the match, so the match taken at s is the longest.
RECURSIVE ArrCapturesFrom(_, _)
ArrCapturesFrom(h, p) ==
    LET starts == { s \in p..Len(h) : h[s] = "s" /\ ArrMatches(h, s) # {} }
    IN  IF starts = {} THEN << >>
        ELSE LET s == Min(starts)
                 g == Max(ArrMatches(h, s))
             IN  << SubSeq(h, ArrGroupStart(s), g - 1) >>
                 \o ArrCapturesFrom(h, Max(ArrTail(h, g)))

re_array_types(h) == ArrCapturesFrom(h, 1)

\* One repetition of the parameter group of re_entry_points:
\* \s*(:?const\s*)?(:?struct\s*)?[a-z0-9_]+\s\**[a-z0-9]+,?\s?
ParamGroup(h, S) ==
    LET g1 == Star(h, S, Space)
        g2 == OptWord(h, g1, W_const)
        g3 == OptWord(h, g2, W_struct)
        g4 == Plus(h, g3, WordCh)
        g5 == One(h, g4, Space)
        g6 == Star(h, g5, {"*"})
        g7 == Plus(h, g6, AlnumCh)
        g8 == g7 \cup Lit(h, g7, <<",">>)
    IN  g8 \cup One(h, g8, Space)

\* ( ... )+ : positions reachable by one or more repetitions
RECURSIVE ParamClosure(_, _, _)
ParamClosure(h, frontier, acc) ==
    LET new == ParamGroup(h, frontier) \ acc
    IN  IF new = {} THEN acc ELSE ParamClosure(h, new, acc \cup new)

\* re_entry_points =
\*   (?m)int futhark_entry_(.+)\(struct futhark_context \*ctx,( group )+\);
\* Ends of the matches that start at s.
EntMatches(h, s) ==
    LET a == Lit(h, {s}, W_int \o SP \o W_futhark_ \o W_entry_)
        b == Plus(h, a, NotNewline)
        c == Lit(h, b, <<"(">> \o CtxParam \o <<",">>)
        d == IF c = {} THEN {} ELSE ParamClosure(h, c, {})
    IN  Lit(h, d, <<")", ";">>)

\* captures_iter(&headers).map(|c| c[0].to_owned()): the whole match
RECURSIVE EntCapturesFrom(_, _)
EntCapturesFrom(h, p) ==
    LET starts == { s \in p..Len(h) : h[s] = "i" /\ EntMatches(h, s) # {} }
    IN  IF starts = {} THEN << >>
        ELSE LET s == Min(starts)
                 e == Max(EntMatches(h, s))
             IN  << SubSeq(h, s, e - 1) >> \o EntCapturesFrom(h, e)

re_entry_points(h) == EntCapturesFrom(h, 1)

\* ---- the scans on their own: SpecScan ----
RECURSIVE SeqsUpTo(_, _)
SeqsUpTo(S, n) ==
    IF n = 0 THEN { << >> }
    ELSE LET shorter == SeqsUpTo(S, n - 1)
         IN  shorter \cup { Append(q, x) : q \in { r \in shorter : Len(r) = n - 1 }, x \in S }


\* Headers drawn for the scans: every sequence of at most MaxChunks declarations
ScanInit ==
    /\ chunks \in SeqsUpTo(ChunkKinds, MaxChunks)
    /\ pc = "scan_arrays"
    /\ arr_out = << >>
    /\ ent_out = << >>
    /\ active_backends = << >>
    /\ macos = FALSE
    /\ no_futhark = FALSE
    /\ installed = TRUE
    /\ sync_status = "none"
    /\ idx = 0
    /\ header = [b \in {"sequential_c", "cuda", "opencl"} |-> 0]
    /\ status = [b \in {"sequential_c", "cuda", "opencl"} |-> "none"]
    /\ files = [f \in {"futhark-version.txt", "build.rs", "Cargo.toml", "src/context.rs",
                       "src/traits.rs", "src/arrays.rs", "src/lib.rs"} |-> "absent"]
    /\ bindings = ""
    /\ bindgen_calls = << >>
    /\ check_equivalent = << >>
    /\ array_types = << >>
    /\ entry_points = << >>
    /\ gen_impl_arg = << >>
    /\ gen_entry_arg = << >>
    /\ outcome = "running"
    /\ message = [kind |-> "none", a |-> "", b |-> ""]

\* let array_types = re_array_types.captures_iter(&headers)...collect()
ScanArrayTypes ==
    /\ pc = "scan_arrays"
    /\ arr_out' = re_array_types(HeaderOf(chunks))
    /\ pc' = "scan_entries"
    /\ UNCHANGED << chunks, ent_out >>
    /\ UNCHANGED runVars

\* let entry_points = re_entry_points.captures_iter(&headers)...collect()
ScanEntryPoints ==
    /\ pc = "scan_entries"
    /\ ent_out' = re_entry_points(HeaderOf(chunks))
    /\ pc' = "scanned"
    /\ UNCHANGED << chunks, arr_out >>
    /\ UNCHANGED runVars

ScanNext == ScanArrayTypes \/ ScanEntryPoints

SpecScan == ScanInit /\ [][ScanNext]_vars

-----------------------------------------------------------------------------
(***************************************************************************)
(* Part 2: one invocation of genfut().                                     *)
(***************************************************************************)

\* The backends in the order of gen_c's blocks and of active_backends
AllBackends == << "sequential_c", "cuda", "opencl" >>
Backends == { AllBackends[k] : k \in DOMAIN AllBackends }

\* Selections of backends that the cfg(feature) attributes can produce
FeatureSelections ==
    { SelectSeq(AllBackends, LAMBDA b : b \in sel) : sel \in SUBSET Backends }

\* Files that genfut() writes after the reduce, in program order
TemplatedFiles == << "build.rs", "Cargo.toml", "src/context.rs", "src/traits.rs",
                     "src/arrays.rs", "src/lib.rs" >>
TemplatedSet == { TemplatedFiles[k] : k \in DOMAIN TemplatedFiles }
VersionFile == "futhark-version.txt"
OutFiles == TemplatedSet \cup {VersionFile}

\* Variant of PostLoop: build.rs is written before the reduce runs.
PostLoopBuildFirst ==
    << "build.rs", "reduce" >> \o Tail(TemplatedFiles) \o << "done" >>

\* Program order of genfut() after the backend loop (lines 215-300): the
\* reduce, then the files, then the return.
PostLoop == << "reduce" >> \o TemplatedFiles \o << "done" >>
NextLabel(p) == PostLoop[(CHOOSE k \in DOMAIN PostLoop : PostLoop[k] = p) + 1]

\* Headers that `futhark <backend> --library` may leave in lib_<backend>/a.h:
\* (1) one entry point over scalars, (2) an array type and an entry point over
\* it, (3) declarations but no entry-point prototype.
HeaderTexts ==
    << HeaderOf(<< "decl_context", "nl", "entry_inc", "nl" >>),
       HeaderOf(<< "decl_context", "nl", "decl_i32_1d", "nl", "free_i32_1d", "nl",
                   "entry_sum", "nl" >>),
       HeaderOf(<< "decl_context", "nl", "free_i32_1d", "nl" >>) >>
HeaderIds == DOMAIN HeaderTexts

\* lines 193-206 applied to each header text
Scanned ==
    [ k \in HeaderIds |-> [ arr |-> re_array_types(HeaderTexts[k]),
                            ent |-> re_entry_points(HeaderTexts[k]) ] ]

NoMessage == [kind |-> "none", a |-> "", b |-> ""]

Init ==
    /\ pc = "create_out_dir"
    /\ active_backends \in FeatureSelections
    /\ macos \in BOOLEAN
    /\ no_futhark \in BOOLEAN
    /\ installed \in BOOLEAN
    /\ sync_status = "none"
    /\ idx = 0
       \* a header of an earlier run may lie in lib_<backend>/
    /\ header \in [Backends -> {0} \cup HeaderIds]
    /\ \A b \in Backends :
           header[b] # 0 => \E k \in DOMAIN active_backends : active_backends[k] = b
    /\ status = [b \in Backends |-> "none"]
    /\ files = [f \in OutFiles |-> "absent"]
    /\ bindings = ""
    /\ bindgen_calls = << >>
    /\ check_equivalent = << >>
    /\ array_types = << >>
    /\ entry_points = << >>
    /\ gen_impl_arg = << >>
    /\ gen_entry_arg = << >>
    /\ outcome = "running"
    /\ message = NoMessage
    /\ chunks = << >>
    /\ arr_out = << >>
    /\ ent_out = << >>

scanVars == << chunks, arr_out, ent_out >>
config == << active_backends, macos, no_futhark, installed >>

\* std::process::exit(1)
Exit1 ==
    /\ outcome' = "exit1"
    /\ UNCHANGED << pc, idx, message >>

\* a failed expect()/unwrap()
Panic ==
    /\ outcome' = "panic"
    /\ UNCHANGED << pc, idx, message >>

Goto(label, i) ==
    /\ pc' = label
    /\ idx' = i
    /\ UNCHANGED << outcome, message >>

\* Where control goes once gen_c is entered / the backend loop is entered:
\* with no active backend neither has anything to do.
EnterLoop == IF active_backends = << >> THEN PostLoop[1] ELSE "copy"
EnterGenC == IF active_backends = << >> THEN EnterLoop ELSE "gen_c"

\* lines 112-117: create_dir_all(out_dir)
CreateOutDir ==
    /\ pc = "create_out_dir" /\ outcome = "running"
    /\ \/ Exit1
       \/ IF no_futhark THEN Goto(EnterGenC, 1) ELSE Goto("pkg_sync", 0)
    /\ UNCHANGED << config, sync_status, header, status, files, bindings, bindgen_calls,
                    check_equivalent, array_types, entry_points, gen_impl_arg,
                    gen_entry_arg, scanVars >>

\* lines 120-122: futhark pkg sync; only a failure to spawn is an error
PkgSync ==
    /\ pc = "pkg_sync" /\ outcome = "running"
    /\ \/ /\ ~installed
          /\ Panic
          /\ UNCHANGED sync_status
       \/ /\ installed
          /\ sync_status' \in {"ok", "failed"}
          /\ Goto("version_file", 0)
    /\ UNCHANGED << config, header, status, files, bindings, bindgen_calls,
                    check_equivalent, array_types, entry_points, gen_impl_arg,
                    gen_entry_arg, scanVars >>

\* lines 124-131: futhark-version.txt
WriteVersionFile ==
    /\ pc = "version_file" /\ outcome = "running"
    /\ \/ /\ Panic                                   \* File::create failed
          /\ UNCHANGED files
       \/ /\ Panic                                   \* write_all failed
          /\ files' = [files EXCEPT ![VersionFile] = "created"]
       \/ /\ files' = [files EXCEPT ![VersionFile] = "written"]
          /\ Goto(EnterGenC, 1)
    /\ UNCHANGED << config, sync_status, header, status, bindings, bindgen_calls,
                    check_equivalent, array_types, entry_points, gen_impl_arg,
                    gen_entry_arg, scanVars >>

\* Variant of AfterGenCBlock: genfut() scans right after the first compilation.
AfterGenCBlockScanFirst(i) == [pc |-> EnterLoop, idx |-> 1]

\* After gen_c's block for the i-th active backend: the next block, or back in
\* genfut() at the backend loop.
AfterGenCBlock(i) ==
    IF i < Len(active_backends) THEN [pc |-> "gen_c", idx |-> i + 1]
    ELSE [pc |-> EnterLoop, idx |-> 1]

\* src/genc.rs 6-75: the block of gen_c for the idx-th active backend
GenC ==
    /\ pc = "gen_c" /\ outcome = "running"
    /\ LET b == active_backends[idx]
           next == AfterGenCBlock(idx)
       IN  \/ /\ Exit1                               \* create_dir_all(lib_dir) failed
              /\ UNCHANGED << header, status >>
           \/ /\ ~installed                          \* .output().expect(..)
              /\ Panic
              /\ UNCHANGED << header, status >>
           \/ /\ installed                           \* the compiler wrote lib_<b>/a.h
              /\ \E k \in HeaderIds : header' = [header EXCEPT ![b] = k]
              /\ status' = [status EXCEPT ![b] = "ok"]
              /\ Goto(next.pc, next.idx)
           \/ /\ installed                           \* non-zero exit, nothing written
              /\ status' = [status EXCEPT ![b] = "failed"]
              /\ UNCHANGED header
              /\ Goto(next.pc, next.idx)
    /\ UNCHANGED << config, sync_status, files, bindings, bindgen_calls,
                    check_equivalent, array_types, entry_points, gen_impl_arg,
                    gen_entry_arg, scanVars >>

\* lines 151-165: copy the kernel source, create src/
Copy ==
    /\ pc = "copy" /\ outcome = "running"
    /\ \/ Exit1                                      \* std::fs::copy failed
       \/ Exit1                                      \* create_dir_all(src_dir) failed
       \/ Goto("bindings", idx)
    /\ UNCHANGED << config, sync_status, header, status, files, bindings, bindgen_calls,
                    check_equivalent, array_types, entry_points, gen_impl_arg,
                    gen_entry_arg, scanVars >>

\* Variant of ShouldGenerateBindings: no exception for opencl on macOS.
AlwaysGenerateBindings(b) == TRUE

\* line 167
ShouldGenerateBindings(b) == ~(macos /\ b = "opencl")

\* lines 167-187 with src/genc.rs 76-94
GenerateBindings ==
    /\ pc = "bindings" /\ outcome = "running"
    /\ LET b == active_backends[idx]
       IN  \/ /\ ~ShouldGenerateBindings(b)
              /\ Goto("scan", idx)
              /\ UNCHANGED << bindings, bindgen_calls >>
           \/ /\ ShouldGenerateBindings(b)          \* bindgen or write_to_file failed
              /\ Panic
              /\ UNCHANGED << bindings, bindgen_calls >>
           \/ /\ ShouldGenerateBindings(b)
              /\ header[b] # 0
              /\ bindings' = b
              /\ bindgen_calls' = Append(bindgen_calls, b)
              /\ Goto("scan", idx)
    /\ UNCHANGED << config, sync_status, header, status, files,
                    check_equivalent, array_types, entry_points, gen_impl_arg,
                    gen_entry_arg, scanVars >>

\* lines 189-212: read the header, scan it, push the result
ScanHeader ==
    /\ pc = "scan" /\ outcome = "running"
    /\ LET b == active_backends[idx]
       IN  \/ /\ header[b] = 0                       \* "Could not read headers"
              /\ Panic
              /\ UNCHANGED check_equivalent
           \/ /\ header[b] # 0
              /\ check_equivalent' =
                     Append(check_equivalent,
                            [backend |-> b, arr |-> Scanned[header[b]].arr,
                             ent |-> Scanned[header[b]].ent])
              /\ IF idx < Len(active_backends)
                 THEN Goto("copy", idx + 1)
                 ELSE Goto(PostLoop[1], idx)
    /\ UNCHANGED << config, sync_status, header, status, files, bindings, bindgen_calls,
                    array_types, entry_points, gen_impl_arg, gen_entry_arg, scanVars >>

\* Variant of Closure: the two panic messages are exchanged.
ClosureWrongList(acc, item) ==
    IF acc.arr # item.arr
    THEN [ok |-> FALSE, val |-> acc,
          msg |-> [kind |-> "Entry points", a |-> acc.backend, b |-> item.backend]]
    ELSE IF acc.ent # item.ent
    THEN [ok |-> FALSE, val |-> acc,
          msg |-> [kind |-> "Array types", a |-> acc.backend, b |-> item.backend]]
    ELSE [ok |-> TRUE, val |-> acc, msg |-> NoMessage]

\* Variant of Closure: the second assert_eq! is missing.
ClosureArraysOnly(acc, item) ==
    IF acc.arr # item.arr
    THEN [ok |-> FALSE, val |-> acc,
          msg |-> [kind |-> "Array types", a |-> acc.backend, b |-> item.backend]]
    ELSE [ok |-> TRUE, val |-> acc, msg |-> NoMessage]

\* lines 218-230: the closure handed to reduce.  reduce calls it with the
\* accumulator first and the next element second, so the closure's
\* (backend, arr, ent) is the accumulator and (prev_backend, ..) the element.
Closure(acc, item) ==
    IF acc.arr # item.arr
    THEN [ok |-> FALSE, val |-> acc,
          msg |-> [kind |-> "Array types", a |-> acc.backend, b |-> item.backend]]
    ELSE IF acc.ent # item.ent
    THEN [ok |-> FALSE, val |-> acc,
          msg |-> [kind |-> "Entry points", a |-> acc.backend, b |-> item.backend]]
    ELSE [ok |-> TRUE, val |-> acc, msg |-> NoMessage]

\* Iterator::reduce over the rest of the vector
RECURSIVE Fold(_, _)
Fold(acc, rest) ==
    IF rest = << >> THEN [ok |-> TRUE, val |-> acc, msg |-> NoMessage]
    ELSE LET r == Closure(acc, Head(rest))
         IN  IF r.ok THEN Fold(r.val, Tail(rest)) ELSE r

\* lines 216-231
Reduce ==
    /\ pc = "reduce" /\ outcome = "running"
    /\ \/ /\ check_equivalent = << >>                \* "at least one backend should be active"
          /\ outcome' = "panic"
          /\ message' = [kind |-> "no backend", a |-> "", b |-> ""]
          /\ UNCHANGED << pc, idx, array_types, entry_points >>
       \/ /\ check_equivalent # << >>
          /\ LET r == Fold(Head(check_equivalent), Tail(check_equivalent))
             IN  IF r.ok
                 THEN /\ array_types' = r.val.arr
                      /\ entry_points' = r.val.ent
                      /\ Goto(NextLabel("reduce"), idx)
                 ELSE /\ outcome' = "panic"
                      /\ message' = r.msg
                      /\ UNCHANGED << pc, idx, array_types, entry_points >>
    /\ UNCHANGED << config, sync_status, header, status, files, bindings, bindgen_calls,
                    check_equivalent, gen_impl_arg, gen_entry_arg, scanVars >>

\* lines 260-300: each file is created (a failure panics) and written with
\* write!/writeln!, whose Result is dropped (line 31 silences the warning).
WriteFile ==
    /\ pc \in TemplatedSet /\ outcome = "running"
    /\ \/ /\ Panic                                   \* File::create failed
          /\ UNCHANGED << files, gen_impl_arg, gen_entry_arg >>
       \/ /\ \E result \in {"created", "written"} :  \* the write failed or not
                files' = [files EXCEPT ![pc] = result]
          /\ gen_impl_arg' = IF pc = "src/arrays.rs" THEN array_types ELSE gen_impl_arg
          /\ gen_entry_arg' = IF pc = "src/lib.rs" THEN entry_points ELSE gen_entry_arg
          /\ IF NextLabel(pc) # "done"
             THEN Goto(NextLabel(pc), idx)
             ELSE /\ pc' = "done"
                  /\ outcome' = "ok"
                  /\ UNCHANGED << idx, message >>
    /\ UNCHANGED << config, sync_status, header, status, bindings, bindgen_calls,
                    check_equivalent, array_types, entry_points, scanVars >>

Next ==
    \/ CreateOutDir
    \/ PkgSync
    \/ WriteVersionFile
    \/ GenC
    \/ Copy
    \/ GenerateBindings
    \/ ScanHeader
    \/ Reduce
    \/ WriteFile

Spec == Init /\ [][Next]_vars

-----------------------------------------------------------------------------
(***************************************************************************)
(* Part 3: the properties.                                                 *)
(***************************************************************************)

ActiveSet == { active_backends[k] : k \in DOMAIN active_backends }
AfterReduce == TemplatedSet \cup {"done"}
MismatchKinds == {"Array types", "Entry points"}
AbortedAtReduce == pc = "reduce" /\ outcome = "panic"
SameModel(x, y) == x.arr = y.arr /\ x.ent = y.ent
AllEqual(ce) == \A i, j \in DOMAIN ce : SameModel(ce[i], ce[j])
ListOf(kind, x) == IF kind = "Array types" THEN x.arr ELSE x.ent

\* C1: when the reduce aborts on a mismatch, the panic names two different
\* active backends whose lists of the named kind differ; the second one named
\* is the first backend, in processing order, whose lists differ from those of
\* the backend before it, and the first one named holds exactly the lists of
\* that previous backend; "Entry points" is reported only when the array types
\* agree.  And any mismatch between neighbouring backends makes the reduce abort.
C1_MismatchNamed ==
    /\ message.kind \in MismatchKinds =>
         /\ AbortedAtReduce
         /\ message.a # message.b
         /\ \E i, j \in DOMAIN check_equivalent :
              /\ i < j
              /\ check_equivalent[i].backend = message.a
              /\ check_equivalent[j].backend = message.b
              /\ ListOf(message.kind, check_equivalent[i])
                   # ListOf(message.kind, check_equivalent[j])
              /\ ListOf(message.kind, check_equivalent[j - 1])
                   # ListOf(message.kind, check_equivalent[j])
              /\ SameModel(check_equivalent[i], check_equivalent[j - 1])
              /\ message.kind = "Entry points" =>
                     check_equivalent[i].arr = check_equivalent[j].arr
              /\ \A k \in 2..(j - 1) :
                     SameModel(check_equivalent[k - 1], check_equivalent[k])
    /\ (pc \in AfterReduce \/ AbortedAtReduce) =>
         ( (\E k \in 2..Len(check_equivalent) :
                ~SameModel(check_equivalent[k - 1], check_equivalent[k]))
           => AbortedAtReduce /\ message.kind \in MismatchKinds )

\* C1 witness: three backends, the first two agree, the third differs in its
\* entry points only; the panic names sequential_c and opencl.
C1_Witness ==
    /\ AbortedAtReduce
    /\ Len(check_equivalent) = 3
    /\ message = [kind |-> "Entry points", a |-> "sequential_c", b |-> "opencl"]
    /\ SameModel(check_equivalent[1], check_equivalent[2])

\* C2: past the reduce every backend was scanned, all backends' lists are
\* identical, and the lists handed to gen_impl_futhark_types and
\* gen_entry_points are those of the first backend (hence of every backend);
\* the reduce aborts on a non-empty vector only if two backends differ, and
\* when two backends differ no file is synthesised.
C2_CanonicalIsFirst ==
    /\ pc \in AfterReduce =>
         /\ check_equivalent # << >>
         /\ Len(check_equivalent) = Len(active_backends)
         /\ AllEqual(check_equivalent)
         /\ \A k \in DOMAIN check_equivalent :
                /\ array_types = check_equivalent[k].arr
                /\ entry_points = check_equivalent[k].ent
    /\ files["src/arrays.rs"] # "absent" => gen_impl_arg = check_equivalent[1].arr
    /\ files["src/lib.rs"] # "absent" => gen_entry_arg = check_equivalent[1].ent
    /\ (AbortedAtReduce /\ check_equivalent # << >>) => ~AllEqual(check_equivalent)
    /\ ~AllEqual(check_equivalent) =>
         /\ pc \notin AfterReduce
         /\ files["src/arrays.rs"] = "absent"
         /\ files["src/lib.rs"] = "absent"

\* C2 witness: three backends with the same array type and entry point, and
\* both synthesised files written.
C2_Witness ==
    /\ pc = "done"
    /\ Len(check_equivalent) = 3
    /\ gen_impl_arg = << Name_i32_1d >>
    /\ gen_entry_arg = << Stmt_entry_sum >>
    /\ files["src/lib.rs"] = "written"

\* C3 (as claimed): a backend whose non-empty header yielded no entry point
\* never reaches the reduce or the synthesis.
C3_ZeroEntryPointsFatal ==
    (\E k \in DOMAIN check_equivalent : check_equivalent[k].ent = << >>)
        => pc \notin ({"reduce"} \cup AfterReduce)

\* C4 (as claimed): a run in which the write of an output file failed does not
\* end as a success.
C4_WriteErrorFails ==
    outcome = "ok" => \A f \in OutFiles : files[f] # "created"

\* C5 (as claimed): a header is scanned only if this run's compiler produced
\* it, and a run ends as a success only if the package sync and every
\* compilation succeeded.
C5_EnvironmentErrorFatal ==
    /\ \A k \in DOMAIN check_equivalent : status[check_equivalent[k].backend] = "ok"
    /\ outcome = "ok" =>
         /\ sync_status # "failed"
         /\ \A b \in ActiveSet : status[b] = "ok"

\* Array types declared by a header, in source order
RECURSIVE DeclNames(_)
DeclNames(cs) ==
    IF cs = << >> THEN << >>
    ELSE (IF Head(cs) \in ArrayDeclKinds THEN << DeclName(Head(cs)) >> ELSE << >>)
         \o DeclNames(Tail(cs))

\* Entry-point prototypes of a header, in source order
RECURSIVE EntryStatements(_)
EntryStatements(cs) ==
    IF cs = << >> THEN << >>
    ELSE (IF Head(cs) \in EntryKinds THEN << ChunkText(Head(cs)) >> ELSE << >>)
         \o EntryStatements(Tail(cs))

\* No two declarations share a line
OnePerLine(cs) == \A k \in 1..(Len(cs) - 1) : cs[k] = "nl" \/ cs[k + 1] = "nl"

\* C6 (as claimed): the array-type scan yields exactly the declared array
\* types, in source order, whatever else the header holds.
C6_ArrayScanExact ==
    pc \in {"scan_entries", "scanned"} => arr_out = DeclNames(chunks)

\* C7 (as claimed): with one declaration per line, the entry-point scan
\* captures every prototype, the one without further parameters included.
C7_EntryScanIncludesK0 ==
    (pc = "scanned" /\ OnePerLine(chunks)) => ent_out = EntryStatements(chunks)

\* What both scans do get right: with one declaration per line, the array
\* types are exact and every prototype with at least one parameter after the
\* context is captured, in source order.
ScansOnePerLine ==
    (pc = "scanned" /\ OnePerLine(chunks)) =>
        /\ arr_out = DeclNames(chunks)
        /\ ent_out = EntryStatements(SelectSeq(chunks, LAMBDA c : c # "entry_nop"))

Compiled(b) == status[b] # "none"
HasBeenScanned(b) == \E k \in DOMAIN check_equivalent : check_equivalent[k].backend = b

\* C8 (as claimed): the compiler of a backend is invoked only after the
\* backend before it has been scanned.
C8_OneBackendAtATime ==
    \A k \in 2..Len(active_backends) :
        Compiled(active_backends[k]) => HasBeenScanned(active_backends[k - 1])

\* C8 (amended): compilations run one after another in the order of the active
\* backends, headers are scanned one after another in that order, and no
\* header is scanned before the compiler has been invoked for every active
\* backend; so a mismatch is reported only after every backend was compiled
\* and scanned.
C8_CompileAllThenScan ==
    /\ \A k \in 2..Len(active_backends) :
           Compiled(active_backends[k]) => Compiled(active_backends[k - 1])
    /\ Len(check_equivalent) <= Len(active_backends)
    /\ \A k \in DOMAIN check_equivalent : check_equivalent[k].backend = active_backends[k]
    /\ (pc \in {"copy", "bindings", "scan"} \/ check_equivalent # << >>) =>
           \A b \in ActiveSet : Compiled(b)
    /\ message.kind \in MismatchKinds =>
           /\ Len(check_equivalent) = Len(active_backends)
           /\ \A b \in ActiveSet : Compiled(b)

\* C8 witness: the first two of three backends disagree, and the compiler has
\* run for the third as well.
C8_Witness ==
    /\ AbortedAtReduce
    /\ Len(active_backends) = 3
    /\ message.kind \in MismatchKinds
    /\ message.b = "cuda"
    /\ status["opencl"] = "ok"

\* C9: when the reduce aborts, none of the templated and typed-wrapper files
\* has been created by this invocation; such a file exists only once the reduce
\* has passed.
C9_NoFilesBeforeCheck ==
    /\ AbortedAtReduce => \A f \in TemplatedSet : files[f] = "absent"
    /\ \A f \in TemplatedSet :
           files[f] # "absent" => (pc \in AfterReduce /\ message = NoMessage)

\* C9 witness: an abort on a mismatch, with the version file and the bindings
\* already written.
C9_Witness ==
    /\ AbortedAtReduce
    /\ message.kind \in MismatchKinds
    /\ files[VersionFile] = "written"
    /\ bindings # ""
    /\ \A f \in TemplatedSet : files[f] = "absent"

\* Backends for which bindings are to be generated, in processing order
BindingBackends ==
    SelectSeq(active_backends, LAMBDA b : ~(macos /\ b = "opencl"))

\* C10: bindings are generated once for each active backend, in order, but not
\* for opencl on macOS; src/bindings.rs holds what the last generation wrote,
\* and is not written when there was none.
C10_BindingsOfLastBackend ==
    /\ \A k \in DOMAIN bindgen_calls :
           k <= Len(BindingBackends) /\ bindgen_calls[k] = BindingBackends[k]
    /\ bindings = IF bindgen_calls = << >> THEN ""
                  ELSE bindgen_calls[Len(bindgen_calls)]
    /\ pc \in ({"reduce"} \cup AfterReduce) =>
           /\ bindgen_calls = BindingBackends
           /\ bindings = IF BindingBackends = << >> THEN ""
                         ELSE BindingBackends[Len(BindingBackends)]

\* C10 witness: a completed run in which src/bindings.rs holds the bindings of
\* a backend other than the first.
C10_Witness ==
    /\ pc = "done" /\ outcome = "ok"
    /\ bindings # ""
    /\ bindings # active_backends[1]

\* A completed run with opencl on macOS as the only backend writes no bindings.
C10_MacOnlyOpenclDone ==
    /\ pc = "done" /\ outcome = "ok"
    /\ macos /\ active_backends = << "opencl" >>
    /\ bindings = ""

=============================================================================
